---- MODULE Spec2Model ----
(***************************************************************************)
(* blackhole: a reverse TCP tunnel (src/index.js).                         *)
(*                                                                         *)
(* Control plane: the client's attemptConnection loop (retry counter and   *)
(* 10 s timers), the server's control listener with its password check,    *)
(* setupTunnel with the exposed listener and its grace timer.              *)
(* Data plane: the logical streams of one control connection, from the     *)
(* external socket through both multiplexers to the local socket and back. *)
(* Node's event loop runs one callback at a time, so every callback is one *)
(* atomic action.  Time is the remaining delay of the pending timers.      *)
(***************************************************************************)
EXTENDS Integers, Sequences, FiniteSets, TLC

\* ---------------------------------------------------------------- constants
maxRetries == 5
retryDelay == 10000
serverTimeout == 5000

\* ------------------------------------------------------------------- bounds
\* control connections that get established during one run
MaxConn == 2

Conn == 1..MaxConn
\* external connections accepted on the exposed port during one run
MaxStreams == 2
\* bytes written into the tunnel, over all its streams and both directions
MaxBytes == 4

Stream == 1..MaxStreams

\* --------------------------------------------------------------- characters
LF == "\n"
Whitespace == {" ", LF}
NoPassword == <<>>
Passwords == {NoPassword, <<"a">>, <<"a", " ">>}
\* what a foreign peer may write on a fresh control connection
PeerMessages ==
    { <<"a", LF>>, <<"a">>, <<"b", LF>>, <<"a", " ", LF>> }
\* a control connection that carries frame bytes right behind the secret:
\* "b" is a byte below 0x80, "x80" a byte that is not UTF-8 on its own
LeftoverMessages ==
    { <<"a", LF, "b">>, <<"a", LF, "b", "x80">> }
AuthFailed == "Authentication failed\n"

NoTimer == [rem |-> -1, el |-> 0]
NoRead == <<"none">>

VARIABLES
    \* client process (index.js 350-416)
    clientPassword, retries, clientExit, connecting, retryTimers,
    dials, lastGap,
    \* server process (index.js 230-305)
    serverPassword, serverUp, controlListening, serverProc,
    \* one record per established control connection
    owner, cst, sst, c2s, cFin, sFin, rst, s2c,
    firstRead, hasPlex, plexIn, exposed, graceTimer,
    \* the tunnel of control connection 1: one entry per logical stream
    ext, cstream, local, extWritten, localWritten,
    downWire, upWire, downRecv, upRecv

clientVars == <<clientPassword, retries, clientExit, connecting, retryTimers,
                dials, lastGap>>
serverVars == <<serverPassword, serverUp, controlListening, serverProc>>
connVars == <<owner, cst, sst, c2s, cFin, sFin, rst, s2c,
              firstRead, hasPlex, plexIn, exposed, graceTimer>>
dataVars == <<ext, cstream, local, extWritten, localWritten,
              downWire, upWire, downRecv, upRecv>>
vars == <<clientVars, serverVars, connVars, dataVars>>

\* ------------------------------------------------------------ pure helpers
Min(S) == CHOOSE x \in S : \A y \in S : x <= y

\* String.prototype.indexOf('\n'), 1-based; 0 stands for JavaScript's -1
IndexOfNewline(s) ==
    IF \E i \in 1..Len(s) : s[i] = LF
    THEN Min({i \in 1..Len(s) : s[i] = LF})
    ELSE 0

RECURSIVE TrimLeft(_)
TrimLeft(s) ==
    IF s # <<>> /\ Head(s) \in Whitespace THEN TrimLeft(Tail(s)) ELSE s

RECURSIVE TrimRight(_)
TrimRight(s) ==
    IF s # <<>> /\ s[Len(s)] \in Whitespace
    THEN TrimRight(SubSeq(s, 1, Len(s) - 1))
    ELSE s

\* String.prototype.trim()
Trim(s) == TrimLeft(TrimRight(s))

\* authBuffer.substring(0, newlineIndex).trim()
Provided(data) == Trim(SubSeq(data, 1, IndexOfNewline(data) - 1))

\* authBuffer.substring(newlineIndex + 1)
Remaining(data) == SubSeq(data, IndexOfNewline(data) + 1, Len(data))

\* a handler that checks the terminator and forgets the comparison
AuthDecisionNoCompare(data) ==
    IF IndexOfNewline(data) = 0 THEN "nonewline" ELSE "ok"

\* the outcome of the once('data') handler for its one chunk
AuthDecision(data) ==
    IF IndexOfNewline(data) = 0 THEN "nonewline"
    ELSE IF Provided(data) # serverPassword THEN "wrong"
    ELSE "ok"

\* ------------------------------------------------------------------ timers
Timer(delay) == [rem |-> delay, el |-> 0]

\* the timers of the processes that are still running
PendingRems ==
    {retryTimers[i].rem : i \in 1..Len(retryTimers)}
        \cup {graceTimer[c].rem :
                 c \in {d \in Conn : serverUp /\ graceTimer[d] # NoTimer}}

\* setTimeout(attemptConnection, 10000)
ScheduleRetry(timers) == Append(timers, Timer(retryDelay))

\* the slot the next established connection takes
FreeSlots == {c \in Conn : owner[c] = "free"}
NextSlot == Min(FreeSlots)

PortBound == \E c \in Conn : exposed[c] = "listening"

\* --------------------------------------------------------------------- Init
InitBase ==
    /\ clientPassword \in Passwords
    /\ serverPassword \in Passwords
    /\ retries = maxRetries
    /\ clientExit = "start"
    /\ connecting = 0
    /\ retryTimers = <<>>
    /\ dials = 0
    /\ lastGap = -1
    /\ serverUp = TRUE
    /\ owner = [c \in Conn |-> "free"]
    /\ cst = [c \in Conn |-> "none"]
    /\ sst = [c \in Conn |-> "none"]
    /\ c2s = [c \in Conn |-> <<>>]
    /\ cFin = [c \in Conn |-> FALSE]
    /\ sFin = [c \in Conn |-> FALSE]
    /\ rst = [c \in Conn |-> FALSE]
    /\ s2c = [c \in Conn |-> <<>>]
    /\ firstRead = [c \in Conn |-> NoRead]
    /\ hasPlex = [c \in Conn |-> FALSE]
    /\ plexIn = [c \in Conn |-> <<>>]
    /\ exposed = [c \in Conn |-> "none"]
    /\ graceTimer = [c \in Conn |-> NoTimer]
    /\ ext = [s \in Stream |-> "none"]
    /\ cstream = [s \in Stream |-> "none"]
    /\ local = [s \in Stream |-> "none"]
    /\ extWritten = [s \in Stream |-> 0]
    /\ localWritten = [s \in Stream |-> 0]
    /\ downWire = <<>>
    /\ upWire = <<>>
    /\ downRecv = [s \in Stream |-> <<>>]
    /\ upRecv = [s \in Stream |-> <<>>]

\* controlServer.listen(waitPort) has been called (index.js 299) and its
\* outcome is still to come
InitBind ==
    /\ InitBase
    /\ controlListening = FALSE
    /\ serverProc = "binding"

\* the control server is listening (index.js 299-301)
Init ==
    /\ InitBase
    /\ controlListening = TRUE
    /\ serverProc = "running"

\* ------------------------------------------------------------------ client
\* process.exit(1): the kernel closes every socket of the process
ClientSocketsClosed ==
    /\ cst' = [c \in Conn |-> IF owner[c] = "client" /\ cst[c] = "open"
                              THEN "closed" ELSE cst[c]]
    /\ cFin' = [c \in Conn |-> IF owner[c] = "client" /\ cst[c] = "open"
                               THEN TRUE ELSE cFin[c]]

\* attemptConnection with the guard off by one (retries < 0)
AttemptConnectionOffByOne(timersLeft, gap) ==
    IF retries < 0
    THEN /\ clientExit' = "exit1"
         /\ retryTimers' = <<>>
         /\ connecting' = 0
         /\ ClientSocketsClosed
         /\ UNCHANGED <<retries, dials, lastGap>>
    ELSE /\ clientExit' = "running"
         /\ retries' = retries - 1
         /\ dials' = dials + 1
         /\ connecting' = connecting + 1
         /\ retryTimers' = timersLeft
         /\ lastGap' = gap
         /\ UNCHANGED <<cst, cFin>>

\* attemptConnection() (index.js 354-413), up to the net.connect call;
\* timersLeft are the timers still pending, gap the time the firing timer ran
AttemptConnection(timersLeft, gap) ==
    IF retries <= 0
    THEN /\ clientExit' = "exit1"
         /\ retryTimers' = <<>>
         /\ connecting' = 0
         /\ ClientSocketsClosed
         /\ UNCHANGED <<retries, dials, lastGap>>
    ELSE /\ clientExit' = "running"
         /\ retries' = retries - 1
         /\ dials' = dials + 1
         /\ connecting' = connecting + 1
         /\ retryTimers' = timersLeft
         /\ lastGap' = gap
         /\ UNCHANGED <<cst, cFin>>

\* index.js 416: the initial attemptConnection()
Start ==
    /\ clientExit = "start"
    /\ AttemptConnection(retryTimers, -1)
    /\ UNCHANGED <<clientPassword, serverVars, owner, sst, c2s, sFin, rst, s2c,
                   firstRead, hasPlex, plexIn, exposed, graceTimer>>
    /\ UNCHANGED dataVars

\* a retry timer expires and calls attemptConnection
TimerFire ==
    /\ clientExit = "running"
    /\ retryTimers # <<>>
    /\ Head(retryTimers).rem = 0
    /\ AttemptConnection(Tail(retryTimers), Head(retryTimers).el)
    /\ UNCHANGED <<clientPassword, serverVars, owner, sst, c2s, sFin, rst, s2c,
                   firstRead, hasPlex, plexIn, exposed, graceTimer>>
    /\ UNCHANGED dataVars

\* controlSocket.on('error') registered at index.js 408-412
OnSocketError(timers) == ScheduleRetry(timers)

\* a 'close' listener that only logs
OnSocketCloseNoRetry(timers) == timers

\* controlSocket.on('close') registered in the connect callback, 402-405
OnSocketClose(timers) == ScheduleRetry(timers)

\* what the connect callback writes first (index.js 366-368)
\* a connect callback that sends no secret
ClientHelloNothing == <<>>

ClientHello ==
    IF clientPassword # NoPassword THEN clientPassword \o <<LF>> ELSE <<>>

\* a connect callback that restores the attempts
RetriesAfterConnectReset == maxRetries

\* the retry counter after the connect callback (362-406): left alone
RetriesAfterConnect == retries

\* the connect callback of net.connect (index.js 362-406)
ConnectOK ==
    /\ clientExit = "running"
    /\ connecting > 0
    /\ serverUp /\ controlListening
    /\ FreeSlots # {}
    /\ LET c == NextSlot IN
        /\ owner' = [owner EXCEPT ![c] = "client"]
        /\ cst' = [cst EXCEPT ![c] = "open"]
        /\ c2s' = [c2s EXCEPT ![c] = ClientHello]
    /\ connecting' = connecting - 1
    /\ retries' = RetriesAfterConnect
    /\ UNCHANGED <<clientPassword, clientExit, retryTimers, dials, lastGap,
                   serverVars, sst, cFin, sFin, rst, s2c,
                   firstRead, hasPlex, plexIn, exposed, graceTimer>>
    /\ UNCHANGED dataVars

\* the dial fails (ECONNREFUSED, ETIMEDOUT, ...): 'error' before 'connect',
\* only the handler of 408-412 is registered
ConnectFail ==
    /\ clientExit = "running"
    /\ connecting > 0
    /\ connecting' = connecting - 1
    /\ retryTimers' = OnSocketError(retryTimers)
    /\ UNCHANGED <<clientPassword, retries, clientExit, dials, lastGap,
                   serverVars, connVars>>
    /\ UNCHANGED dataVars

\* the server's FIN reaches an open control socket: 'end', then 'close'
ClientEnd(c) ==
    /\ clientExit = "running"
    /\ owner[c] = "client" /\ cst[c] = "open"
    /\ sFin[c] \/ ~serverUp
    /\ cst' = [cst EXCEPT ![c] = "closed"]
    /\ cFin' = [cFin EXCEPT ![c] = TRUE]
    /\ retryTimers' = OnSocketClose(retryTimers)
    /\ UNCHANGED <<clientPassword, retries, clientExit, connecting, dials,
                   lastGap, serverVars, owner, sst, c2s, sFin, rst, s2c,
                   firstRead, hasPlex, plexIn, exposed, graceTimer>>
    /\ UNCHANGED dataVars

\* a transport error on an open control socket: 'error', then 'close'
ClientError(c) ==
    /\ clientExit = "running"
    /\ owner[c] = "client" /\ cst[c] = "open"
    /\ rst[c] \/ ~serverUp
    /\ cst' = [cst EXCEPT ![c] = "closed"]
    /\ retryTimers' = OnSocketClose(OnSocketError(retryTimers))
    /\ UNCHANGED <<clientPassword, retries, clientExit, connecting, dials,
                   lastGap, serverVars, owner, sst, c2s, cFin, sFin, rst, s2c,
                   firstRead, hasPlex, plexIn, exposed, graceTimer>>
    /\ UNCHANGED dataVars

\* --------------------------------------------------- network and foreign peers
\* a foreign program connects to the control port and writes m
PeerConnect(m) ==
    /\ serverUp /\ controlListening
    /\ FreeSlots # {}
    /\ LET c == NextSlot IN
        /\ owner' = [owner EXCEPT ![c] = "peer"]
        /\ cst' = [cst EXCEPT ![c] = "open"]
        /\ c2s' = [c2s EXCEPT ![c] = m]
    /\ UNCHANGED <<clientVars, serverVars, sst, cFin, sFin, rst, s2c,
                   firstRead, hasPlex, plexIn, exposed, graceTimer>>
    /\ UNCHANGED dataVars

\* the foreign peer closes its socket
PeerFin(c) ==
    /\ owner[c] = "peer" /\ cst[c] = "open"
    /\ cst' = [cst EXCEPT ![c] = "closed"]
    /\ cFin' = [cFin EXCEPT ![c] = TRUE]
    /\ UNCHANGED <<clientVars, serverVars, owner, sst, c2s, sFin, rst, s2c,
                   firstRead, hasPlex, plexIn, exposed, graceTimer>>
    /\ UNCHANGED dataVars

\* the connection is reset (a peer aborts, a middlebox drops the flow)
Reset(c) ==
    /\ owner[c] # "free" /\ cst[c] = "open" /\ ~rst[c]
    /\ rst' = [rst EXCEPT ![c] = TRUE]
    /\ cst' = [cst EXCEPT ![c] = IF owner[c] = "peer" THEN "closed" ELSE @]
    /\ UNCHANGED <<clientVars, serverVars, owner, sst, c2s, cFin, sFin, s2c,
                   firstRead, hasPlex, plexIn, exposed, graceTimer>>
    /\ UNCHANGED dataVars

\* ------------------------------------------------------------------ server
\* An 'error' event on an emitter without an 'error' listener is thrown as an
\* uncaught exception: the server process dies with everything it holds.
Crash ==
    /\ serverUp' = FALSE
    /\ serverProc' = "crashed"
    /\ UNCHANGED <<serverPassword, controlListening>>

\* setupTunnel (index.js 184-227): exposedServer.listen(exposedPort) binds at
\* once; a port still bound by an earlier listener gives EADDRINUSE as an
\* 'error' event on exposedServer, which has no 'error' listener
SetupTunnel(c) ==
    IF PortBound
    THEN /\ Crash
         /\ UNCHANGED exposed
    ELSE /\ exposed' = [exposed EXCEPT ![c] = "listening"]
         /\ UNCHANGED serverVars

\* multiplex(), controlSocket.pipe(plex).pipe(controlSocket), setupTunnel(...)
\* (index.js 281-289 and 293-295); leftover is what plex.write() is given
Admit(c, leftover) ==
    /\ sst' = [sst EXCEPT ![c] = "active"]
    /\ hasPlex' = [hasPlex EXCEPT ![c] = TRUE]
    /\ plexIn' = [plexIn EXCEPT ![c] = leftover]
    /\ SetupTunnel(c)
    /\ UNCHANGED <<s2c, sFin>>

\* a rejection that also stops the control listener
RejectAuthStopsListening(c) ==
    /\ sst' = [sst EXCEPT ![c] = "rejected"]
    /\ s2c' = [s2c EXCEPT ![c] = Append(@, AuthFailed)]
    /\ sFin' = [sFin EXCEPT ![c] = TRUE]
    /\ controlListening' = FALSE
    /\ UNCHANGED <<serverPassword, serverUp, serverProc, hasPlex, plexIn,
                   exposed>>

\* controlSocket.end('Authentication failed\n'); return  (270-271, 276-277)
RejectAuth(c) ==
    /\ sst' = [sst EXCEPT ![c] = "rejected"]
    /\ s2c' = [s2c EXCEPT ![c] = Append(@, AuthFailed)]
    /\ sFin' = [sFin EXCEPT ![c] = TRUE]
    /\ UNCHANGED <<serverVars, hasPlex, plexIn, exposed>>

\* the 'listening' callback of controlServer (index.js 299-301)
ListenOK ==
    /\ serverProc = "binding"
    /\ serverProc' = "running"
    /\ controlListening' = TRUE
    /\ UNCHANGED <<serverPassword, serverUp, clientVars, connVars, dataVars>>

\* the control port cannot be bound (EADDRINUSE, EACCES): 'error' on
\* controlServer, whose listener (index.js 303-305) only logs.  Nothing is
\* left to keep the event loop alive, and the process ends with status 0.
ListenError ==
    /\ serverProc = "binding"
    /\ serverProc' = "exit0"
    /\ serverUp' = FALSE
    /\ UNCHANGED <<serverPassword, controlListening, clientVars, connVars,
                   dataVars>>

\* the 'connection' callback of controlServer (index.js 258-297)
Accept(c) ==
    /\ serverUp /\ controlListening
    /\ owner[c] # "free" /\ sst[c] = "none"
    /\ IF serverPassword # NoPassword
       THEN /\ sst' = [sst EXCEPT ![c] = "auth"]
            /\ UNCHANGED <<serverVars, s2c, sFin, hasPlex, plexIn, exposed>>
       ELSE Admit(c, <<>>)
    /\ UNCHANGED <<clientVars, owner, cst, c2s, cFin, rst, firstRead, graceTimer>>
    /\ UNCHANGED dataVars

\* data.toString() (index.js 266): UTF-8 decoding of the chunk; a byte that
\* is no valid UTF-8 becomes the replacement character U+FFFD
DataToString(bytes) ==
    [i \in 1..Len(bytes) |-> IF bytes[i] = "x80" THEN "uFFFD" ELSE bytes[i]]

\* plex.write(remaining) (index.js 285) with a string: its UTF-8 encoding;
\* U+FFFD is the three bytes EF BF BD
RECURSIVE Utf8Bytes(_)
Utf8Bytes(str) ==
    IF str = <<>> THEN <<>>
    ELSE (IF Head(str) = "uFFFD" THEN <<"xEF", "xBF", "xBD">> ELSE <<Head(str)>>)
             \o Utf8Bytes(Tail(str))

\* controlSocket.once('data', ...) (index.js 265-290): the first chunk the
\* socket delivers, any non-empty prefix of what is in flight
AuthData(c, n) ==
    /\ serverUp
    /\ sst[c] = "auth"
    /\ n \in 1..Len(c2s[c])
    /\ LET data == DataToString(SubSeq(c2s[c], 1, n)) IN
        /\ firstRead' = [firstRead EXCEPT ![c] = SubSeq(c2s[c], 1, n)]
        /\ c2s' = [c2s EXCEPT ![c] = SubSeq(@, n + 1, Len(@))]
        /\ IF AuthDecision(data) = "ok"
           THEN Admit(c, Utf8Bytes(Remaining(data)))
           ELSE RejectAuth(c)
    /\ UNCHANGED <<clientVars, owner, cst, cFin, rst, graceTimer>>
    /\ UNCHANGED dataVars

\* later chunks: piped into plex when active, without a listener otherwise
ServerData(c) ==
    /\ serverUp
    /\ sst[c] \in {"active", "rejected"}
    /\ c2s[c] # <<>>
    /\ c2s' = [c2s EXCEPT ![c] = <<>>]
    /\ plexIn' = [plexIn EXCEPT
                    ![c] = IF sst[c] = "active" THEN @ \o c2s[c] ELSE @]
    /\ UNCHANGED <<clientVars, serverVars, owner, cst, sst, cFin, sFin, rst,
                   s2c, firstRead, hasPlex, exposed, graceTimer>>
    /\ UNCHANGED dataVars

\* a 'close' listener that closes the exposed server without waiting
OnControlCloseAtOnce(c) ==
    IF sst[c] = "active" THEN Timer(0) ELSE graceTimer[c]

\* controlSocket.on('close') of setupTunnel (index.js 215-221); only a socket
\* that went through setupTunnel has this listener
OnControlClose(c) ==
    IF sst[c] = "active" THEN Timer(serverTimeout) ELSE graceTimer[c]

\* the peer's FIN: 'end', the socket ends its own side, 'close'
ServerEnd(c) ==
    /\ serverUp
    /\ sst[c] \in {"auth", "active", "rejected"}
    /\ cFin[c] /\ c2s[c] = <<>> /\ ~rst[c]
    /\ sst' = [sst EXCEPT ![c] = "closed"]
    /\ sFin' = [sFin EXCEPT ![c] = TRUE]
    /\ graceTimer' = [graceTimer EXCEPT ![c] = OnControlClose(c)]
    /\ UNCHANGED <<clientVars, serverVars, owner, cst, c2s, cFin, rst, s2c,
                   firstRead, hasPlex, plexIn, exposed>>
    /\ UNCHANGED dataVars

\* a transport error on the server's end: 'error', then 'close'.  Only
\* setupTunnel registers an 'error' listener (index.js 224-226).
ServerError(c) ==
    /\ serverUp
    /\ sst[c] \in {"auth", "active", "rejected"}
    /\ rst[c]
    /\ IF sst[c] = "active"
       THEN /\ sst' = [sst EXCEPT ![c] = "closed"]
            /\ graceTimer' = [graceTimer EXCEPT ![c] = OnControlClose(c)]
            /\ UNCHANGED serverVars
       ELSE /\ Crash
            /\ UNCHANGED <<sst, graceTimer>>
    /\ UNCHANGED <<clientVars, owner, cst, c2s, cFin, sFin, rst, s2c,
                   firstRead, hasPlex, plexIn, exposed>>
    /\ UNCHANGED dataVars

\* the setTimeout callback of index.js 217-220: exposedServer.close()
GraceFire(c) ==
    /\ serverUp
    /\ graceTimer[c] # NoTimer
    /\ graceTimer[c].rem = 0
    /\ graceTimer' = [graceTimer EXCEPT ![c] = NoTimer]
    /\ exposed' = [exposed EXCEPT
                     ![c] = IF @ = "listening" THEN "closed" ELSE @]
    /\ UNCHANGED <<clientVars, serverVars, owner, cst, sst, c2s, cFin, sFin,
                   rst, s2c, firstRead, hasPlex, plexIn>>
    /\ UNCHANGED dataVars

\* -------------------------------------------------------------------- time
\* time passes until the next pending timer is due; a due timer runs first
Advance ==
    /\ PendingRems # {}
    /\ LET d == Min(PendingRems) IN
        /\ d > 0
        /\ retryTimers' = [i \in 1..Len(retryTimers) |->
                             [rem |-> retryTimers[i].rem - d,
                              el |-> retryTimers[i].el + d]]
        /\ graceTimer' = [c \in Conn |->
                            IF serverUp /\ graceTimer[c] # NoTimer
                            THEN [rem |-> graceTimer[c].rem - d,
                                  el |-> graceTimer[c].el + d]
                            ELSE graceTimer[c]]
    /\ UNCHANGED <<clientPassword, retries, clientExit, connecting, dials,
                   lastGap, serverVars, owner, cst, sst, c2s, cFin, sFin, rst,
                   s2c, firstRead, hasPlex, plexIn, exposed>>
    /\ UNCHANGED dataVars

\* ------------------------------------------------------------------ tunnel
\* The logical streams of control connection 1.  Framing and demultiplexing
\* belong to the multiplex package; what index.js decides is which stream
\* each socket is piped to.  A frame names the stream it travels on and
\* carries, as payload, the identity <<from, k>> of the k-th byte written by
\* the endpoint of stream `from`.
Frame(id, op, from, k) == [id |-> id, op |-> op, from |-> from, k |-> k]

\* the bytes written so far to the first n streams
RECURSIVE Total(_, _)
Total(written, n) == IF n = 0 THEN 0 ELSE written[n] + Total(written, n - 1)
WithinBudget ==
    Total(extWritten, MaxStreams) + Total(localWritten, MaxStreams) < MaxBytes

ServerPlexLive == serverUp /\ sst[1] = "active" /\ hasPlex[1]
ClientPlexLive == clientExit = "running" /\ owner[1] = "client" /\ cst[1] = "open"

\* one stream shared by every external connection
PlexStreamShared(s) == 1

\* const plexStream = plex.createStream() (index.js 189): a stream of its own
\* for each external connection; streams are numbered in order of creation
PlexStreamOf(s) == s

\* what the server's plex puts on the control socket (plex.pipe(controlSocket),
\* index.js 288/295); nothing leaves once the control socket is closed
SendDown(f) == IF ServerPlexLive THEN Append(downWire, f) ELSE downWire

\* what the client's plex puts on the control socket (index.js 371)
SendUp(wire, f) == IF ClientPlexLive THEN Append(wire, f) ELSE wire

\* the 'connection' callback of exposedServer (index.js 185-208)
ExtConnect(s) ==
    /\ serverUp /\ exposed[1] = "listening"
    /\ ext[s] = "none"
    /\ \A t \in Stream : t < s => ext[t] # "none"
    /\ ext' = [ext EXCEPT ![s] = "open"]
    /\ downWire' = SendDown(Frame(PlexStreamOf(s), "open", s, 0))
    /\ UNCHANGED <<clientVars, serverVars, connVars, cstream, local,
                   extWritten, localWritten, upWire, downRecv, upRecv>>

\* clientSocket.pipe(plexStream) (index.js 192): a byte from the external
\* client is written to the stream of its connection
ExtWrite(s) ==
    /\ serverUp
    /\ ext[s] = "open"
    /\ WithinBudget
    /\ extWritten' = [extWritten EXCEPT ![s] = @ + 1]
    /\ downWire' = SendDown(Frame(PlexStreamOf(s), "data", s, extWritten[s] + 1))
    /\ UNCHANGED <<clientVars, serverVars, connVars, ext, cstream, local,
                   localWritten, upWire, downRecv, upRecv>>

\* plex.on('stream') (index.js 374-394): net.connect to the local service,
\* stream.pipe(localSocket).pipe(stream)
OnStream(id) ==
    /\ cstream' = [cstream EXCEPT ![id] = "open"]
    /\ local' = [local EXCEPT ![id] = "connecting"]
    /\ UNCHANGED downRecv

\* stream.pipe(localSocket) (index.js 381): a byte of the stream is written to
\* the local socket, which buffers it until connected; a destroyed socket has
\* been unpiped; the end of the stream ends the local socket
PipeToLocal(f) ==
    /\ downRecv' = [downRecv EXCEPT
                      ![f.id] = IF f.op = "data" /\ cstream[f.id] # "none"
                                   /\ local[f.id] \in {"connecting", "open"}
                                THEN Append(@, <<f.from, f.k>>) ELSE @]
    /\ local' = [local EXCEPT
                   ![f.id] = IF f.op = "end" /\ cstream[f.id] # "none"
                                /\ @ \in {"connecting", "open"}
                             THEN "ended" ELSE @]
    /\ UNCHANGED cstream

\* controlSocket.pipe(plex) on the client (index.js 371): the next frame from
\* the server reaches the client's plex
ClientRecv ==
    /\ ClientPlexLive
    /\ downWire # <<>>
    /\ downWire' = Tail(downWire)
    /\ LET f == Head(downWire) IN
        IF f.op = "open" THEN OnStream(f.id) ELSE PipeToLocal(f)
    /\ UNCHANGED <<clientVars, serverVars, connVars, ext, extWritten,
                   localWritten, upWire, upRecv>>

\* the connect callback of the local socket (index.js 376-378)
LocalConnected(s) ==
    /\ clientExit = "running"
    /\ local[s] = "connecting"
    /\ local' = [local EXCEPT ![s] = "open"]
    /\ UNCHANGED <<clientVars, serverVars, connVars, ext, cstream, extWritten,
                   localWritten, downWire, upWire, downRecv, upRecv>>

\* an 'error' listener that gives up every stream of the connection
OnLocalErrorEndsAll(s) ==
    /\ cstream' = [t \in Stream |-> IF cstream[t] = "open" THEN "ended" ELSE cstream[t]]
    /\ upWire' = SendUp(upWire, Frame(s, "end", s, 0))

\* localSocket.on('error') (index.js 384-387): stream.end()
OnLocalError(s) ==
    /\ cstream' = [cstream EXCEPT ![s] = "ended"]
    /\ upWire' = SendUp(upWire, Frame(s, "end", s, 0))

\* the connection to the local service fails (ECONNREFUSED, ...): 'error' on
\* localSocket
LocalConnectFail(s) ==
    /\ clientExit = "running"
    /\ local[s] = "connecting"
    /\ local' = [local EXCEPT ![s] = "failed"]
    /\ OnLocalError(s)
    /\ UNCHANGED <<clientVars, serverVars, connVars, ext, extWritten,
                   localWritten, downWire, downRecv, upRecv>>

\* localSocket.pipe(stream) (index.js 381): a byte from the local service is
\* written to the stream it was opened for
LocalWrite(s) ==
    /\ clientExit = "running"
    /\ local[s] = "open" /\ cstream[s] = "open"
    /\ WithinBudget
    /\ localWritten' = [localWritten EXCEPT ![s] = @ + 1]
    /\ upWire' = SendUp(upWire, Frame(s, "data", s, localWritten[s] + 1))
    /\ UNCHANGED <<clientVars, serverVars, connVars, ext, cstream, local,
                   extWritten, downWire, downRecv, upRecv>>

\* the external client ends its connection (FIN): 'end' on clientSocket, and
\* clientSocket.pipe(plexStream) (index.js 192) ends the stream; the socket,
\* not allowed to stay half open, ends its own side and closes
ExtEnd(s) ==
    /\ serverUp
    /\ ext[s] \in {"open", "ended"}
    /\ ext' = [ext EXCEPT ![s] = "closed"]
    /\ downWire' = SendDown(Frame(PlexStreamOf(s), "end", s, 0))
    /\ UNCHANGED <<clientVars, serverVars, connVars, cstream, local,
                   extWritten, localWritten, upWire, downRecv, upRecv>>

\* the external connection breaks (ECONNRESET, ...): 'error' and 'close' on
\* clientSocket without 'end'.  The 'error' listener (index.js 200-202) only
\* logs, and pipe() ends its destination on 'end' alone.
ExtError(s) ==
    /\ serverUp
    /\ ext[s] \in {"open", "ended"}
    /\ ext' = [ext EXCEPT ![s] = "closed"]
    /\ UNCHANGED <<clientVars, serverVars, connVars, cstream, local,
                   extWritten, localWritten, downWire, upWire, downRecv, upRecv>>

\* the local service ends its connection (FIN): 'end' on localSocket, and
\* localSocket.pipe(stream) (index.js 381) ends the stream
LocalEnd(s) ==
    /\ clientExit = "running"
    /\ local[s] \in {"open", "ended"}
    /\ local' = [local EXCEPT ![s] = "closed"]
    /\ cstream' = [cstream EXCEPT ![s] = "ended"]
    /\ upWire' = IF cstream[s] = "open"
                 THEN SendUp(upWire, Frame(s, "end", s, 0)) ELSE upWire
    /\ UNCHANGED <<clientVars, serverVars, connVars, ext, extWritten,
                   localWritten, downWire, downRecv, upRecv>>

\* the established connection to the local service breaks: 'error' on
\* localSocket, handled by the listener of index.js 384-387
LocalError(s) ==
    /\ clientExit = "running"
    /\ local[s] \in {"open", "ended"}
    /\ local' = [local EXCEPT ![s] = "failed"]
    /\ IF cstream[s] = "open" THEN OnLocalError(s)
                              ELSE UNCHANGED <<cstream, upWire>>
    /\ UNCHANGED <<clientVars, serverVars, connVars, ext, extWritten,
                   localWritten, downWire, downRecv, upRecv>>

\* plexStream.pipe(clientSocket) (index.js 192): a byte of the stream is
\* written to the external socket; the end of the stream ends that socket
PipeToExt(f) ==
    /\ upRecv' = [upRecv EXCEPT
                    ![f.id] = IF f.op = "data" /\ ext[f.id] = "open"
                              THEN Append(@, <<f.from, f.k>>) ELSE @]
    /\ ext' = [ext EXCEPT
                 ![f.id] = IF f.op = "end" /\ @ = "open" THEN "ended" ELSE @]

\* controlSocket.pipe(plex) on the server (index.js 288/295): the next frame
\* from the client reaches the server's plex
ServerRecv ==
    /\ ServerPlexLive
    /\ upWire # <<>>
    /\ upWire' = Tail(upWire)
    /\ PipeToExt(Head(upWire))
    /\ UNCHANGED <<clientVars, serverVars, connVars, cstream, local,
                   extWritten, localWritten, downWire, downRecv>>

\* -------------------------------------------------------------------- Next
Next ==
    \/ Start
    \/ TimerFire
    \/ ConnectOK
    \/ ConnectFail
    \/ \E c \in Conn : ClientEnd(c)
    \/ \E c \in Conn : ClientError(c)
    \/ \E m \in PeerMessages \cup {<<>>} : PeerConnect(m)
    \/ \E c \in Conn : PeerFin(c)
    \/ \E c \in Conn : Reset(c)
    \/ \E c \in Conn : Accept(c)
    \/ \E c \in Conn : \E n \in 1..3 : AuthData(c, n)
    \/ \E c \in Conn : ServerData(c)
    \/ \E c \in Conn : ServerEnd(c)
    \/ \E c \in Conn : ServerError(c)
    \/ \E c \in Conn : GraceFire(c)
    \/ Advance
    \/ \E s \in Stream : ExtConnect(s)
    \/ \E s \in Stream : ExtWrite(s)
    \/ ClientRecv
    \/ \E s \in Stream : LocalConnected(s)
    \/ \E s \in Stream : LocalConnectFail(s)
    \/ \E s \in Stream : LocalWrite(s)
    \/ ServerRecv
    \/ \E s \in Stream : ExtEnd(s)
    \/ \E s \in Stream : ExtError(s)
    \/ \E s \in Stream : LocalEnd(s)
    \/ \E s \in Stream : LocalError(s)
    \/ ListenOK
    \/ ListenError

Spec == InitBind /\ [][Next]_vars

NextClient ==
    \/ Start
    \/ TimerFire
    \/ ConnectOK
    \/ ConnectFail
    \/ \E c \in Conn : ClientEnd(c)
    \/ \E c \in Conn : ClientError(c)
    \/ \E c \in Conn : Reset(c)
    \/ \E c \in Conn : Accept(c)
    \/ \E c \in Conn : \E n \in 1..3 : AuthData(c, n)
    \/ \E c \in Conn : ServerData(c)
    \/ \E c \in Conn : ServerEnd(c)
    \/ \E c \in Conn : ServerError(c)
    \/ \E c \in Conn : GraceFire(c)
    \/ Advance
SpecClient == Init /\ [][NextClient]_vars

NextServer ==
    \/ \E m \in PeerMessages \cup {<<>>} : PeerConnect(m)
    \/ \E c \in Conn : PeerFin(c)
    \/ \E c \in Conn : Reset(c)
    \/ \E c \in Conn : Accept(c)
    \/ \E c \in Conn : \E n \in 1..3 : AuthData(c, n)
    \/ \E c \in Conn : ServerData(c)
    \/ \E c \in Conn : ServerEnd(c)
    \/ \E c \in Conn : ServerError(c)
    \/ \E c \in Conn : GraceFire(c)
    \/ Advance
SpecServer == Init /\ [][NextServer]_vars

\* the server from the call of controlServer.listen on
NextBind ==
    \/ ListenOK
    \/ ListenError
    \/ NextServer

SpecBind == InitBind /\ [][NextBind]_vars

\* the server and foreign peers whose first frame bytes follow the secret
NextLeftover ==
    \/ \E m \in LeftoverMessages : PeerConnect(m)
    \/ \E c \in Conn : PeerFin(c)
    \/ \E c \in Conn : Accept(c)
    \/ \E c \in Conn : \E n \in 1..4 : AuthData(c, n)
    \/ \E c \in Conn : ServerData(c)
    \/ \E c \in Conn : ServerEnd(c)
    \/ \E c \in Conn : GraceFire(c)
    \/ Advance

SpecLeftover == Init /\ [][NextLeftover]_vars

\* one client and one server that agree on the secret, and the streams of
\* their control connection while it is up
NextTunnel ==
    \/ Start
    \/ ConnectOK
    \/ \E c \in Conn : Accept(c)
    \/ \E c \in Conn : \E n \in 1..3 : AuthData(c, n)
    \/ \E s \in Stream : ExtConnect(s)
    \/ \E s \in Stream : ExtWrite(s)
    \/ ClientRecv
    \/ \E s \in Stream : LocalConnected(s)
    \/ \E s \in Stream : LocalConnectFail(s)
    \/ \E s \in Stream : LocalWrite(s)
    \/ ServerRecv

InitTunnel ==
    /\ Init
    /\ clientPassword = serverPassword
    /\ serverPassword \in {NoPassword, <<"a">>}

SpecTunnel == InitTunnel /\ [][NextTunnel]_vars

\* the bridges of one control connection that stays up: streams are opened,
\* carry bytes and are closed from either end, in order or by an error
NextBridge ==
    \/ NextTunnel
    \/ \E s \in Stream : ExtEnd(s)
    \/ \E s \in Stream : ExtError(s)
    \/ \E s \in Stream : LocalEnd(s)
    \/ \E s \in Stream : LocalError(s)

\* callbacks that are due run: the dial and its connect callback, the accept
\* and first read of the server, frames in flight, the local connect
FairBridge ==
    /\ WF_vars(Start)
    /\ WF_vars(ConnectOK)
    /\ WF_vars(\E c \in Conn : Accept(c))
    /\ WF_vars(\E c \in Conn : AuthData(c, Len(c2s[c])))
    /\ WF_vars(ClientRecv)
    /\ WF_vars(ServerRecv)
    /\ \A s \in Stream : WF_vars(LocalConnected(s) \/ LocalConnectFail(s))

FairSpecBridge == InitTunnel /\ [][NextBridge]_vars /\ FairBridge

\* the bridges of one control connection that is lost to a transport error;
\* the bytes carried are left out, they play no part in the closing
NextDrop ==
    \/ Start
    \/ ConnectOK
    \/ \E c \in Conn : Accept(c)
    \/ \E c \in Conn : \E n \in 1..3 : AuthData(c, n)
    \/ \E s \in Stream : ExtConnect(s)
    \/ ClientRecv
    \/ \E s \in Stream : LocalConnected(s)
    \/ \E s \in Stream : LocalConnectFail(s)
    \/ ServerRecv
    \/ \E s \in Stream : ExtEnd(s)
    \/ \E s \in Stream : LocalEnd(s)
    \/ \E c \in Conn : Reset(c)
    \/ \E c \in Conn : ClientError(c)
    \/ \E c \in Conn : ServerError(c)

\* as FairBridge, and the 'error' of a reset connection is raised at both ends
FairDrop ==
    /\ FairBridge
    /\ WF_vars(\E c \in Conn : ClientError(c))
    /\ WF_vars(\E c \in Conn : ServerError(c))

FairSpecDrop == InitTunnel /\ [][NextDrop]_vars /\ FairDrop

\* What the scheduling guarantees: Node runs the callback of a due timer, a
\* TCP connect attempt ends (connected, refused or timed out), time passes.
FairClient ==
    /\ WF_vars(Start)
    /\ WF_vars(TimerFire)
    /\ WF_vars(ConnectOK \/ ConnectFail)
    /\ \A c \in Conn : WF_vars(GraceFire(c))
    /\ WF_vars(Advance)
\* one client configuration, against a server that admits it and one that
\* rejects it
InitFair ==
    /\ Init
    /\ clientPassword = <<"a">>
    /\ serverPassword \in {<<"a">>, <<"a", " ">>}
FairSpecClient == InitFair /\ [][NextClient]_vars /\ FairClient

\* ===================================================================== claims
\* no dial of this run has connected
Unreachable == \A c \in Conn : owner[c] # "client"

C1_Safe ==
    Unreachable =>
        /\ dials <= maxRetries
        /\ dials >= 2 => lastGap >= retryDelay
        /\ clientExit = "exit1" => dials = maxRetries

\* C1: when every dial fails, the client dials exactly maxRetries times, each
\* dial after the first at least retryDelay after the failure before it, and
\* then the process exits with code 1.
C1_UnreachableServer ==
    /\ []C1_Safe
    /\ ([]Unreachable) => <>(clientExit = "exit1" /\ dials = maxRetries)

C1_Witness == Unreachable /\ clientExit = "exit1" /\ dials = maxRetries

\* a dial that failed, or an open control socket of the client that closed
FailedDial == connecting' = connecting - 1 /\ owner' = owner
Dropped(c) ==
    /\ owner[c] = "client" /\ cst[c] = "open" /\ cst'[c] = "closed"
    /\ clientExit' = "running"

\* C8: each failed dial and each drop of an established control connection,
\* by an orderly close or by a socket error, schedules exactly one next dial
\* (one more attempt is counted for it).
C8_OneDialPerFailure ==
    [][ (FailedDial \/ \E c \in Conn : Dropped(c))
            => Len(retryTimers') = Len(retryTimers) + 1 ]_vars

ClientBusy ==
    \/ connecting > 0
    \/ retryTimers # <<>>
    \/ \E c \in Conn : owner[c] = "client" /\ cst[c] = "open"

C9_Safe ==
    /\ clientExit = "exit1" => retries = 0
    /\ clientExit = "running" => ClientBusy

\* a retry timer left the queue
TimerConsumed == Len(retryTimers') < Len(retryTimers)

\* C9: the client exits (code 1) only with the attempts used up; short of
\* that it never stops supervising: every scheduled retry is acted upon, by
\* another dial while attempts are left and by the exit when none is left.
C9_OnlyExhaustionGivesUp ==
    /\ []C9_Safe
    /\ [][ TimerConsumed =>
             IF retries > 0
             THEN dials' = dials + 1 /\ clientExit' = "running"
             ELSE clientExit' = "exit1" ]_vars
    /\ (clientExit = "running" /\ retryTimers # <<>>)
           ~> (clientExit = "exit1" \/ retryTimers = <<>>)

C9_Witness ==
    /\ clientExit = "exit1"
    /\ \E c \in Conn : owner[c] = "client" /\ hasPlex[c]

\* C10: the attempt counter never goes up, also not when a control connection
\* is established, and no run dials more than maxRetries times.
C10_CounterNeverReset ==
    [][ retries' <= retries /\ dials' <= maxRetries ]_vars

C10_Witness ==
    /\ dials = maxRetries
    /\ retries = 0
    /\ \E c \in Conn : owner[c] = "client" /\ cst[c] = "closed" /\ hasPlex[c]

\* the server rejects control connection c in this step
Rejects(c) == sst[c] = "auth" /\ sst'[c] = "rejected"

\* C7: a rejection leaves the control listener listening, the server running
\* and every other control connection as it was, so later connections are
\* still accepted; the rejected client's socket closes and its 'close'
\* listener schedules the next dial.
C7_AuthFailureIsLocal ==
    [][ /\ \A c \in Conn : Rejects(c) =>
              /\ controlListening' /\ serverUp'
              /\ \A d \in Conn \ {c} :
                    /\ sst'[d] = sst[d]
                    /\ hasPlex'[d] = hasPlex[d]
                    /\ exposed'[d] = exposed[d]
                    /\ graceTimer'[d] = graceTimer[d]
        /\ \A c \in Conn : (sst[c] = "rejected" /\ Dropped(c)) =>
              Len(retryTimers') > Len(retryTimers) ]_vars

\* a rejected dial of the client is followed by a connection that the server
\* accepted, with the retry of the first scheduled in between
C7_Witness ==
    \E c, d \in Conn :
        /\ c < d
        /\ owner[c] = "client" /\ owner[d] = "client"
        /\ sst[c] \in {"rejected", "closed"} /\ ~hasPlex[c]
        /\ firstRead[c] # NoRead
        /\ cst[c] = "closed"
        /\ sst[d] = "auth"

\* the first chunk of c as the handler saw it
Line(c) == SubSeq(firstRead[c], 1, IndexOfNewline(firstRead[c]) - 1)
HasLine(c) == firstRead[c] # NoRead /\ IndexOfNewline(firstRead[c]) > 0
Admitted(c) == hasPlex[c]
Refused(c) == ~hasPlex[c] /\ sst[c] \in {"rejected", "closed"} /\ sFin[c]

\* C2: with a secret configured, a connection whose first chunk is the secret
\* and a line terminator is admitted, one whose line is another word is
\* refused and closed, one whose chunk has no terminator is refused.
C2_AuthDecides ==
    \A c \in Conn : (serverPassword # NoPassword /\ firstRead[c] # NoRead) =>
        /\ (HasLine(c) /\ Line(c) = serverPassword) => Admitted(c)
        /\ (HasLine(c) /\ Trim(Line(c)) # Trim(serverPassword)) => Refused(c)
        /\ ~HasLine(c) => Refused(c)

\* the comparison of index.js 273-274 fails
Mismatch(c) == HasLine(c) /\ Trim(Line(c)) # serverPassword

\* C6: on a mismatch the server has written 'Authentication failed\n' and
\* ended the socket, and the connection never gets a multiplexer, an exposed
\* listener or a grace timer.
C6_MismatchIsRefused ==
    \A c \in Conn : Mismatch(c) =>
        /\ s2c[c] = <<AuthFailed>>
        /\ sFin[c]
        /\ sst[c] \in {"rejected", "closed"}
        /\ ~hasPlex[c]
        /\ exposed[c] = "none"
        /\ graceTimer[c] = NoTimer

C6_Witness ==
    \E c \in Conn : Mismatch(c) /\ sst[c] = "closed" /\ cst[c] = "closed"

\* the exposed listener of c takes connections
Accepting(c) == serverUp /\ exposed[c] = "listening"

\* no other control connection is open at the server (no reconnection)
Alone(c) == \A d \in Conn \ {c} : sst[d] \in {"none", "closed"}

C3_Safe ==
    \A c \in Conn : (sst[c] = "closed" /\ hasPlex[c] /\ Alone(c)) =>
        /\ (graceTimer[c] # NoTimer /\ graceTimer[c].el < serverTimeout)
              => Accepting(c)
        /\ graceTimer[c] = NoTimer => exposed[c] = "closed"

Expected(s, n) == [i \in 1..n |-> <<s, i>>]
TunnelUp == ServerPlexLive /\ ClientPlexLive
InFlight(wire, s) == \E i \in 1..Len(wire) : wire[i].from = s

\* what each end of a stream has been given is, byte for byte and in order,
\* the beginning of what the other end wrote to that stream
C4_Prefix ==
    \A s \in Stream :
        /\ \E n \in 0..extWritten[s] : downRecv[s] = Expected(s, n)
        /\ \E n \in 0..localWritten[s] : upRecv[s] = Expected(s, n)

\* with the control connection up, both ends of the stream open and nothing
\* of the stream in flight, all of it has been given
C4_Complete ==
    \A s \in Stream :
        (TunnelUp /\ ext[s] = "open" /\ cstream[s] = "open"
            /\ local[s] \in {"connecting", "open"}) =>
            /\ ~InFlight(downWire, s) => Len(downRecv[s]) = extWritten[s]
            /\ ~InFlight(upWire, s) => Len(upRecv[s]) = localWritten[s]

\* C4: on every logical stream the bytes given to the reader at the far end
\* are the bytes written to that stream, in write order, none lost, none
\* twice, none from another stream, whatever the other streams of the same
\* control connection carry in between
C4_StreamOrder == C4_Prefix /\ C4_Complete

\* two streams have carried bytes at the same time, one of them two bytes
\* one way and one back, and every byte has arrived
C4_Witness ==
    /\ TunnelUp
    /\ downRecv[1] = Expected(1, 2) /\ downRecv[2] = Expected(2, 1)
    /\ upRecv[1] = Expected(1, 1)

LocalFails(s) == local[s] = "connecting" /\ local'[s] = "failed"
OthersOf(wire, s) == SelectSeq(wire, LAMBDA f : f.from # s)

\* C5: when the connection to the local target fails for one stream, that
\* stream is ended, and the control connection, the exposed listener and
\* every other stream with its sockets and bytes stay as they were
C5_LocalFailureIsLocal ==
    [][\A s \in Stream : LocalFails(s) =>
          /\ cstream'[s] = "ended"
          /\ TunnelUp => upWire' = Append(upWire, Frame(s, "end", s, 0))
          /\ UNCHANGED <<clientVars, serverVars, connVars>>
          /\ downWire' = downWire
          /\ OthersOf(upWire', s) = OthersOf(upWire, s)
          /\ \A t \in Stream \ {s} :
                UNCHANGED <<ext[t], cstream[t], local[t], extWritten[t],
                            localWritten[t], downRecv[t], upRecv[t]>>]_vars

\* a stream has been ended by a local failure while another is open, its
\* local socket connected, on a live control connection
C5_Witness ==
    \E s, t \in Stream :
        /\ s # t
        /\ local[s] = "failed" /\ cstream[s] = "ended"
        /\ cstream[t] = "open" /\ local[t] = "open"
        /\ TunnelUp

\* ---------------------------------------------------------------------- C11
ExtClosed(s) == ext[s] = "closed"
ExtShut(s) == ext[s] \in {"ended", "closed"}
LocalClosed(s) == local[s] \in {"closed", "failed"}
LocalShut(s) == local[s] \in {"ended", "closed", "failed"}

\* C11: on a control connection that stays up, once the external socket of a
\* bridge has closed, by an orderly end or by a socket error, the local
\* socket of the same stream is closed too, and once the local socket has
\* closed the external socket is; no bridge keeps one side open for ever.
C11_BothSidesClose ==
    \A s \in Stream :
        /\ ExtClosed(s) ~> LocalShut(s)
        /\ LocalClosed(s) ~> ExtShut(s)

\* ---------------------------------------------------------------------- C12
ControlClosed == sst[1] = "closed" /\ cst[1] = "closed"
BridgeOpen(s) == ext[s] = "open" \/ local[s] \in {"connecting", "open"}

\* C12: a transport error on the control connection closes it at both ends,
\* and once it is closed every stream it carried is closed: no external or
\* local socket of a bridge stays open on the closed control connection.
C12_DropClosesBridges ==
    /\ (\E c \in Conn : rst[c] /\ owner[c] = "client" /\ sst[c] = "active")
            ~> ControlClosed
    /\ \A s \in Stream : ControlClosed ~> ~BridgeOpen(s)

\* ---------------------------------------------------------------------- C13
\* control connection c was Active and has closed
WasActive(c) == hasPlex[c] /\ sst[c] = "closed"

\* C13: when a control connection has become Active in place of one that
\* was Active and has closed, whether the grace timer of the old one is
\* still pending or has expired, the server is running and a listener on
\* the exposed port accepts external connections for the new connection.
C13_ReplacementContinues ==
    \A c, d \in Conn :
        (WasActive(c) /\ sst[d] = "active") =>
            serverUp /\ exposed[d] = "listening"

\* ---------------------------------------------------------------------- C14
BindFails == serverProc = "binding" /\ serverProc' # "binding" /\ ~controlListening'

\* C14: when the control listener cannot bind the control port, the server
\* process exits with a non-zero exit code.
C14_BindFailureExitsNonZero ==
    [][BindFails => serverProc' = "exit1"]_vars

\* ---------------------------------------------------------------------- C15
\* bytes that no multiplexer wrote have reached the plex of connection c:
\* everything in plexIn is raw text of the peer, frames travel in upWire
MalformedReceived(c) == hasPlex[c] /\ plexIn[c] # <<>>

\* C15: once bytes that are not a well-formed frame have been received on
\* an Active control connection, that control connection is closed; the
\* bytes are never passed over with the connection left Active.
C15_MalformedFrameCloses ==
    \A c \in Conn : MalformedReceived(c) => sst[c] = "closed" \/ ~serverUp

\* ---------------------------------------------------------------------- C16
\* no listener for a connection that has not been admitted
C16_NeverEarlier ==
    \A c \in Conn :
        exposed[c] # "none" => hasPlex[c] /\ sst[c] \in {"active", "closed"}

\* an Active connection has its listener bound
C16_BoundWhenActive ==
    \A c \in Conn : sst[c] = "active" => exposed[c] = "listening"

\* C16: a listener is bound to the exposed port for a control connection as
\* soon as that connection is Active and never before: a connection that is
\* waiting for its secret or was refused has none.
C16_ListenerWhenActive == C16_NeverEarlier /\ C16_BoundWhenActive

\* ---------------------------------------------------------------------- C20
InGrace(c) == sst[c] = "closed" /\ graceTimer[c] # NoTimer
Listeners == {c \in Conn : exposed[c] = "listening"}
Owners == {c \in Conn : hasPlex[c] /\ (sst[c] = "active" \/ InGrace(c))}

\* C20: every control connection that is Active or in its grace window has
\* one listener of its own and no other connection has one: the listeners
\* are exactly those of the connections alive or in their grace window.
C20_OneListenerPerConnection == Listeners = Owners

\* ---------------------------------------------------------------------- C17
AfterLine(bytes) == SubSeq(bytes, IndexOfNewline(bytes) + 1, Len(bytes))
IsPrefix(p, q) == Len(p) <= Len(q) /\ SubSeq(q, 1, Len(p)) = p

\* C17: for a connection admitted by its secret, what the multiplexer has
\* been given, followed by what is still unread, is byte for byte what the
\* peer sent behind the line terminator: the bytes of the first read come
\* first, none is dropped or changed, and nothing else was consumed.
C17_LeftoverReachesPlex ==
    \A c \in Conn :
        (hasPlex[c] /\ firstRead[c] # NoRead) =>
            \E m \in LeftoverMessages :
                /\ IsPrefix(firstRead[c], m)
                /\ plexIn[c] \o c2s[c] = AfterLine(m)

\* ---------------------------------------------------------------------- C18
\* what the peer has sent so far: the first read and what is still unread
Sent(c) == firstRead[c] \o c2s[c]
SentLine(c) == SubSeq(Sent(c), 1, IndexOfNewline(Sent(c)) - 1)

\* C18: a connection whose bytes up to the first line terminator are the
\* secret is admitted however these bytes are split into reads, also when
\* the first read ends before the terminator.
C18_SplitReadsAdmitted ==
    \A c \in Conn :
        (/\ serverPassword # NoPassword
         /\ firstRead[c] # NoRead
         /\ IndexOfNewline(Sent(c)) > 0
         /\ Trim(SentLine(c)) = serverPassword) => hasPlex[c]

\* ---------------------------------------------------------------------- C19
\* the connect callback of the client's control socket c runs
Connects(c) == owner[c] = "free" /\ owner'[c] = "client"
AuthLine == IF clientPassword # NoPassword THEN clientPassword \o <<LF>> ELSE <<>>

\* the connect callback writes the secret and a line terminator, no frame
\* has been written before it, and the client's multiplexer is live at once,
\* before the server has accepted or answered
C19_Step ==
    \A c \in Conn : Connects(c) =>
        /\ c2s'[c] = AuthLine
        /\ upWire = <<>> /\ upWire' = <<>>
        /\ cst'[c] = "open" /\ sst'[c] = "none"

\* when a frame of the client is on the wire the server has read the whole
\* auth line ahead of it
C19_LineAhead ==
    (upWire # <<>> /\ clientPassword # NoPassword) =>
        /\ firstRead[1] = AuthLine
        /\ c2s[1] = <<>>

\* C19: with a secret configured the client writes the secret and a line
\* terminator in its connect callback, before its multiplexer exists, so
\* the auth line is ahead of every frame byte on the wire, and the client
\* is in frame mode at once without waiting for an answer of the server.
C19_AuthLineFirst == [][C19_Step]_vars /\ []C19_LineAhead

\* a frame of the client is on the wire behind the secret
C19_Witness ==
    /\ clientPassword # NoPassword
    /\ upWire # <<>>
    /\ ClientPlexLive

\* the control connections of the client that are open
ClientOpen == {c \in Conn : owner[c] = "client" /\ cst[c] = "open"}

\* C22: on the client at most one control connection is being dialed, is
\* Active or has a retry timer pending for it; one drop never leads to two
\* scheduled or concurrent dials.
C22_OneControlConnection ==
    clientExit = "running" =>
        connecting + Cardinality(ClientOpen) + Len(retryTimers) <= 1

\* attemptConnection takes its exit branch (index.js 355-358)
GivesUp == clientExit = "running" /\ clientExit' = "exit1"

\* C23: the client exits with "all reconnection attempts have failed" only
\* when no control connection is Active or being dialed.
C23_ExitOnlyWhenDown ==
    [][ GivesUp => (connecting = 0 /\ ClientOpen = {}) ]_vars

\* ---------------------------------------------------------------------- C24
\* the server process is alive and controlServer listens (index.js 299-301)
ServerRuns == serverProc = "running" /\ serverUp /\ controlListening

\* exposedServer.listen(exposedPort) of a newly admitted control connection
\* finds the port bound (index.js 210)
ExposedBindFails ==
    PortBound /\ \E c \in Conn : sst[c] # "active" /\ sst'[c] = "active"

\* C24: whatever the sequence and interleaving of control-connection accepts
\* and closes, the server process keeps running and its control listener
\* keeps listening; a failed bind of the exposed port never ends the server.
C24_ServerKeepsRunning ==
    [][ (ServerRuns /\ ExposedBindFails) => ServerRuns' ]_vars

\* ---------------------------------------------------------------------- C25
\* What the scheduling guarantees on the server: Node runs the callback of
\* every event that is ready (a pending connection, bytes, FIN or error on a
\* socket, a due timer) and time passes.  What a peer does is not promised.
FairServer ==
    /\ \A c \in Conn : WF_vars(Accept(c))
    /\ \A c \in Conn : WF_vars(\E n \in 1..3 : AuthData(c, n))
    /\ \A c \in Conn : WF_vars(ServerData(c))
    /\ \A c \in Conn : WF_vars(ServerEnd(c))
    /\ \A c \in Conn : WF_vars(ServerError(c))
    /\ \A c \in Conn : WF_vars(GraceFire(c))
    /\ WF_vars(Advance)

\* a server started with --password a
InitAuth == Init /\ serverPassword = <<"a">>
FairSpecAuth == InitAuth /\ [][NextServer]_vars /\ FairServer

\* the 'connection' callback has run for c and its once('data') listener
\* (index.js 265) has not
Authenticating(c) == serverUp /\ sst[c] = "auth"

\* C25: with a secret configured, every accepted control connection leaves
\* the Authenticating state in the end, for Active or for Closed, also when
\* the peer never sends a byte.
C25_AuthenticationEnds ==
    \A c \in Conn : Authenticating(c) ~> ~Authenticating(c)

\* ---------------------------------------------------------------------- C26
\* the 'connection' callback of exposedServer runs for external connection s
\* (index.js 185-192): the socket is piped to a new stream of the plex
ExtAccepted(s) == ext[s] = "none" /\ ext'[s] = "open"

\* C26: every external connection accepted by an exposed listener is bridged
\* to a stream of a control connection that is Active at that moment; none
\* is attached to a control connection that has closed (the grace window).
C26_AcceptOnlyWhenActive ==
    [][ \A s \in Stream : ExtAccepted(s) => sst[1] = "active" ]_vars

====
